---------------------------- MODULE Spec2Model ----------------------------
(***************************************************************************)
(* GTFStoSHPweeklynumber (src/GTFStoSHP.py): one run of the GTFS-to-weekly- *)
(* trip-count pipeline, as a sequential state machine.  Each action is one  *)
(* stage of the function body between two points where an exception can    *)
(* send control to the except handler of line 311.                          *)
(* The callers of src/Pollution_variables.py are the second call of a      *)
(* repeated run (Rerun) and the end of an iteration of the loop over the    *)
(* feeds (CloseLog).  SpecFind follows the lookup of one table file in a    *)
(* list of paths character by character; SpecSchema follows the text of     *)
(* schema.ini through a series of calls of format_schema_import.            *)
(*                                                                         *)
(* Modelling conventions                                                   *)
(*  - Python floats are exact rationals [n, d] (d > 0); d = 0 is a NULL     *)
(*    field.  Rounding of the FLOAT fields is not modelled.                 *)
(*  - Dates are the YYYYMMDD integers of calendar.txt; ParseDate does what  *)
(*    datetime.strptime(str(d), '%Y%m%d') does (proleptic ordinal, or a     *)
(*    ValueError for a date that does not exist).                           *)
(*  - Vendor tools are modelled by their documented behaviour:              *)
(*    PointsToLine without Sort_Field uses the points in the order found    *)
(*    and writes only lines of two or more vertices; AddJoin defaults to    *)
(*    KEEP_ALL; Statistics with case fields gives one record per distinct   *)
(*    combination of case values and skips NULLs in SUM/MIN/MAX; field      *)
(*    names are matched without regard to case.                             *)
(***************************************************************************)
EXTENDS Integers, Sequences, FiniteSets, TLC

(***************************************************************************)
(* Bounds of the model.                                                    *)
(***************************************************************************)
MaxShapeRows == 3
MaxExcRows == 2
MaxCalRows == 2
MaxTrips == 2
MaxIdCols == 2
MaxFiles == 2
MaxCalls == 2

(***************************************************************************)
(* Sequences of length at most n over S.                                   *)
(***************************************************************************)
SeqUpTo(S, n) == UNION {[1..k -> S] : k \in 0..n}

Max2(a, b) == IF a >= b THEN a ELSE b

(***************************************************************************)
(* Rationals standing for Python floats.                                   *)
(***************************************************************************)
RECURSIVE GCD(_, _)
GCD(a, b) == IF b = 0 THEN a ELSE GCD(b, a % b)

\* n/d in lowest terms
Rat(n, d) ==
    IF d <= 0 THEN [n |-> n, d |-> d]
    ELSE LET g == GCD(IF n < 0 THEN 0 - n ELSE n, d)
         IN  [n |-> n \div g, d |-> d \div g]

NullRat == [n |-> 0, d |-> 0]

IsNullRat(x) == x.d = 0

RatEq(x, y) == x.d # 0 /\ y.d # 0 /\ x.n * y.d = y.n * x.d

RatLt(x, y) == x.n * y.d < y.n * x.d

RatAdd(x, y) == Rat(x.n * y.d + y.n * x.d, x.d * y.d)

RatMax(x, y) == IF RatLt(x, y) THEN y ELSE x

RatDiv(x, y) == Rat(x.n * y.d, x.d * y.n)

(***************************************************************************)
(* datetime.strptime(str(d), '%Y%m%d'): the day ordinal, or a ValueError.  *)
(***************************************************************************)
IsLeap(y) == (y % 4 = 0) /\ ((y % 100 # 0) \/ (y % 400 = 0))

DaysInMonth(y, m) ==
    IF m = 2 THEN (IF IsLeap(y) THEN 29 ELSE 28)
    ELSE IF m \in {4, 6, 9, 11} THEN 30 ELSE 31

RECURSIVE DaysBeforeMonth(_, _)
DaysBeforeMonth(y, m) ==
    IF m <= 1 THEN 0 ELSE DaysBeforeMonth(y, m - 1) + DaysInMonth(y, m - 1)

DaysBeforeYear(y) ==
    (y - 1) * 365 + ((y - 1) \div 4) - ((y - 1) \div 100) + ((y - 1) \div 400)

DateValid(d) ==
    LET y == d \div 10000
        m == (d \div 100) % 100
        dd == d % 100
    IN  /\ y >= 1
        /\ m \in 1..12
        /\ dd >= 1
        /\ dd <= DaysInMonth(y, m)

ParseDate(d) ==
    LET y == d \div 10000
        m == (d \div 100) % 100
        dd == d % 100
    IN  DaysBeforeYear(y) + DaysBeforeMonth(y, m) + dd

(***************************************************************************)
(* The input feed.  Names of tables, identifiers and sample values.        *)
(***************************************************************************)
Tables == {"routes", "trips", "calendar", "calendar_dates", "shapes"}

ImportedTables == {"routes", "trips", "calendar"}

ShapeIds == {"A", "B"}

RouteIds == {"R1", "R2"}

\* service_id of the i-th calendar row (service_id is the key of calendar.txt)
SvcName == <<"S1", "S2", "S3", "S4", "S5">>

\* start_date/end_date values: 20190101..20190312 is 70 days; 20190105 is the
\* day of the run; 20190230 does not exist
Dates == {20181225, 20190101, 20190105, 20190312, 20190230}

\* the day on which the run takes place (datetime.now())
BaseDay == 20190105

EvalDates == {20181231, BaseDay}

MonWedFri == <<1, 0, 1, 0, 1, 0, 0>>

AllWeek == <<1, 1, 1, 1, 1, 1, 1>>

NoDay == <<0, 0, 0, 0, 0, 0, 0>>

FlagChoices == {NoDay, MonWedFri, AllWeek}

\* a row of calendar.txt as imported into the calendar table; the six added
\* fields (lines 233-238) are NULL: -1 for the SHORT fields, NullRat for the
\* FLOAT fields
NullShort == 0 - 1

CalRow(sid, flags, start, end) ==
    [service_id |-> sid, days |-> flags, start_date |-> start, end_date |-> end,
     normalnum |-> NullShort, date_added |-> NullShort, date_removed |-> NullShort,
     date_weekavg |-> NullRat, adjustnum |-> NullRat, service_len |-> NullShort]

CalRowsFull(sid) ==
    {CalRow(sid, f, s, e) : f \in FlagChoices, s \in Dates, e \in Dates}

CalRowsSmall(sid) ==
    {CalRow(sid, MonWedFri, 20190101, 20190312),
     CalRow(sid, AllWeek, 20181225, 20190101),
     CalRow(sid, MonWedFri, 20190312, 20190312),
     CalRow(sid, AllWeek, 20190101, 20190230)}

CalendarTables ==
    {<<>>}
    \cup {<<r>> : r \in CalRowsFull(SvcName[1])}
    \cup {t \in SeqUpTo(UNION {CalRowsSmall(SvcName[i]) : i \in 1..MaxCalRows},
                        MaxCalRows) :
             /\ Len(t) >= 2
             /\ \A i \in 1..Len(t) : t[i].service_id = SvcName[i]}

\* a row of calendar_dates.txt: exception_type "1" service added, "2" service
\* removed; "x" is not a number; "" is a row with too few columns
ExcRow(sid, et) == [service_id |-> sid, exception_type |-> et]

ExcTypes == {"1", "2", "0", "3", "x", ""}

ExcRowsFull == {ExcRow(s, et) : s \in {"S1", "S2"}, et \in ExcTypes}

ExcRowsSmall == {ExcRow("S1", et) : et \in {"1", "2"}}

\* a row of shapes.txt: kind "ok", "short" (too few columns) or "badnum" (a
\* coordinate that float() rejects)
ShapeRow(sid, seq, kind) == [shape_id |-> sid, seq |-> seq, kind |-> kind]

ShapeRows ==
    {ShapeRow(s, q, "ok") : s \in ShapeIds, q \in 1..3}
    \cup {ShapeRow("A", 1, k) : k \in {"short", "badnum"}}

\* a row of trips.txt; service "S9" has no calendar row
TripRow(shp, rt, svc) == [shape_id |-> shp, route_id |-> rt, service_id |-> svc]

TripRows ==
    {TripRow(s, r, v) : s \in ShapeIds, r \in RouteIds, v \in {"S1", "S2", "S9"}}

\* a row of routes.txt
RouteRow(rt, ty) ==
    [route_id |-> rt, route_short_name |-> rt, route_desc |-> rt, route_type |-> ty]

BaseRoutes == {RouteRow("R1", 3), RouteRow("R2", 0)}

BaseShapes ==
    <<ShapeRow("A", 1, "ok"), ShapeRow("A", 2, "ok"),
      ShapeRow("B", 1, "ok"), ShapeRow("B", 2, "ok")>>

BaseCalendar ==
    <<CalRow("S1", MonWedFri, 20190101, 20190312),
      CalRow("S2", AllWeek, 20181225, 20190312)>>

BaseExceptions == <<ExcRow("S1", "1")>>

BaseTrips == <<TripRow("A", "R1", "S1")>>

\* number of header names of each imported table that are literally one of
\* idfields (line 60); a header that spells its identifier columns otherwise
\* (ROUTE_ID) holds none, and the joins of lines 272-273 still find the fields
BaseIdCols == [t \in ImportedTables |-> 1]

(***************************************************************************)
(* Shapes: the insert loop of lines 187-195 and PointsToLine (line 202).    *)
(***************************************************************************)
\* rows that reach cursor.insertRow; the others raise inside the try of line
\* 189 and are logged (line 195)
InsertedPoints(rows) == SelectSeq(rows, LAMBDA r : r.kind = "ok")

SkippedRows(rows) == SelectSeq(rows, LAMBDA r : r.kind # "ok")

RECURSIVE WarningsFor(_)
WarningsFor(rows) ==
    IF rows = <<>> THEN <<>>
    ELSE <<[level |-> "WARNING", what |-> Head(rows).kind]>> \o WarningsFor(Tail(rows))

\* the shape_pt_sequence values of the points of shape s, in the order in
\* which the points are found in the point feature class (no Sort_Field)
RECURSIVE SeqsOf(_)
SeqsOf(pts) ==
    IF pts = <<>> THEN <<>> ELSE <<Head(pts).seq>> \o SeqsOf(Tail(pts))

PointsOfShape(pts, s) == SeqsOf(SelectSeq(pts, LAMBDA r : r.shape_id = s))

PointsToLine(pts) ==
    [s \in {x \in ShapeIds : Len(PointsOfShape(pts, x)) >= 2} |->
        PointsOfShape(pts, s)]

(***************************************************************************)
(* calendar_dates: the counting loop of lines 223-226.                     *)
(***************************************************************************)
\* int(lineformat['exception_type']) - 1 as an index into [added, removed]:
\* 1 and 2 for the two cells (index -1 is the last cell), or the exception
ExcCell(et) ==
    CASE et = "1" -> "added"
      [] et = "2" -> "removed"
      [] et = "0" -> "removed"
      [] et = "3" -> "IndexError"
      [] et = "x" -> "ValueError"
      [] OTHER -> "KeyError"

DicGet(dic, sid) == IF sid \in DOMAIN dic THEN dic[sid] ELSE <<0, 0>>

DicPut(dic, sid, v) == [k \in (DOMAIN dic) \cup {sid} |-> IF k = sid THEN v ELSE dic[k]]

RECURSIVE CountExceptions(_, _)
CountExceptions(rows, dic) ==
    IF rows = <<>> THEN [dic |-> dic, err |-> ""]
    ELSE LET r == Head(rows)
             c == ExcCell(r.exception_type)
             old == DicGet(dic, r.service_id)
         IN  IF c = "added"
             THEN CountExceptions(Tail(rows), DicPut(dic, r.service_id, <<old[1] + 1, old[2]>>))
             ELSE IF c = "removed"
             THEN CountExceptions(Tail(rows), DicPut(dic, r.service_id, <<old[1], old[2] + 1>>))
             ELSE [dic |-> dic, err |-> c]

(***************************************************************************)
(* calendar: the update cursor of lines 246-268.                           *)
(***************************************************************************)
\* lines 248-250
ServiceLen(start, end) == Max2(ParseDate(end) - ParseDate(start), 1)

\* variant: the net number of exceptions per day, not per week
DateWeekAvgPerDay(added, removed, service_len) == Rat(added - removed, service_len)

\* line 257: (added - removed) / (float(service_len) / 7.0)
DateWeekAvg(added, removed, service_len) == Rat(7 * (added - removed), service_len)

\* variant: sum(row[4:9]), monday to friday only
NormalNumWeekdays(days) == days[1] + days[2] + days[3] + days[4] + days[5]

\* line 262: sum(row[4:11])
NormalNum(days) == days[1] + days[2] + days[3] + days[4] + days[5] + days[6] + days[7]

\* variant: without the floor at 0
AdjustNumNoFloor(normalnum, weekavg) == RatAdd(Rat(normalnum, 1), weekavg)

\* line 263: max(sum(row[4:11]) + row[13], 0)
AdjustNum(normalnum, weekavg) == RatMax(RatAdd(Rat(normalnum, 1), weekavg), Rat(0, 1))

\* line 265: datetime.strptime(str(row[1]), '%Y%m%d') > datetime.now(), with
\* now some time of the day today
StartsAfter(start, day) == ParseDate(start) > ParseDate(day)

\* variant: the test reads end_date (row[2]) instead of start_date (row[1])
ZeroedByEndDate(row, cur, day) == StartsAfter(row.end_date, day) /\ cur = TRUE

\* the test of line 265
Zeroed(row, cur, day) == StartsAfter(row.start_date, day) /\ cur = TRUE

UpdateRow(row, dic, cur, day) ==
    LET sl == ServiceLen(row.start_date, row.end_date)
        hit == row.service_id \in DOMAIN dic
        added == IF hit THEN dic[row.service_id][1] ELSE 0
        removed == IF hit THEN dic[row.service_id][2] ELSE 0
        avg == IF hit THEN DateWeekAvg(added, removed, sl) ELSE Rat(0, 1)
        z == Zeroed(row, cur, day)
    IN  [row EXCEPT !.service_len = sl,
                    !.date_added = added,
                    !.date_removed = removed,
                    !.date_weekavg = avg,
                    !.normalnum = IF z THEN 0 ELSE NormalNum(row.days),
                    !.adjustnum = IF z THEN Rat(0, 1)
                                  ELSE AdjustNum(NormalNum(row.days), avg)]

\* the cursor: rows are updated in place one after the other; a date that
\* strptime rejects raises ValueError at line 248 and leaves that row and the
\* rows after it as imported
RECURSIVE UpdateCursor(_, _, _, _, _)
UpdateCursor(rows, i, dic, cur, day) ==
    IF i > Len(rows) THEN [table |-> rows, err |-> ""]
    ELSE IF ~(DateValid(rows[i].start_date) /\ DateValid(rows[i].end_date))
    THEN [table |-> rows, err |-> "ValueError"]
    ELSE UpdateCursor([rows EXCEPT ![i] = UpdateRow(rows[i], dic, cur, day)],
                      i + 1, dic, cur, day)

(***************************************************************************)
(* Trips: the joins of lines 271-274 and Statistics_analysis (277-282).    *)
(***************************************************************************)
FirstIndex(S) == CHOOSE i \in S : \A j \in S : i <= j

\* one row of trips_routes_calendar: the trip, the fields of the first
\* calendar row of its service_id and of the route of its route_id (KEEP_ALL:
\* NULL where there is none)
JoinedRow(t, cal, routes) ==
    LET ci == {i \in 1..Len(cal) : cal[i].service_id = t.service_id}
        rr == {r \in routes : r.route_id = t.route_id}
        r == CHOOSE x \in rr : TRUE
    IN  [shape_id |-> t.shape_id,
         route_id |-> t.route_id,
         route_short_name |-> IF rr = {} THEN "" ELSE r.route_short_name,
         route_desc |-> IF rr = {} THEN "" ELSE r.route_desc,
         route_type |-> IF rr = {} THEN NullShort ELSE r.route_type,
         normalnum |-> IF ci = {} THEN NullShort ELSE cal[FirstIndex(ci)].normalnum,
         adjustnum |-> IF ci = {} THEN NullRat ELSE cal[FirstIndex(ci)].adjustnum,
         service_len |-> IF ci = {} THEN NullShort ELSE cal[FirstIndex(ci)].service_len]

JoinTrips(trips, cal, routes) ==
    [i \in 1..Len(trips) |-> JoinedRow(trips[i], cal, routes)]

\* variant: the route fields do not distinguish cases
CaseFieldsShapeOnly(j) == <<j.shape_id, "", "", "", NullShort>>

\* case_field of lines 281-282
CaseFields(j) ==
    <<j.shape_id, j.route_id, j.route_short_name, j.route_desc, j.route_type>>

\* variant: the value of the first row of the case instead of the sum
SumShortFirst(rows, I) == rows[FirstIndex(I)].normalnum

RECURSIVE SumShort(_, _)
SumShort(rows, I) ==
    IF I = {} THEN 0
    ELSE LET i == CHOOSE x \in I : TRUE
         IN  rows[i].normalnum + SumShort(rows, I \ {i})

RECURSIVE SumRat(_, _)
SumRat(rows, I) ==
    IF I = {} THEN Rat(0, 1)
    ELSE LET i == CHOOSE x \in I : TRUE
         IN  RatAdd(rows[i].adjustnum, SumRat(rows, I \ {i}))

MinLen(rows, I) ==
    CHOOSE v \in {rows[i].service_len : i \in I} :
        \A w \in {rows[i].service_len : i \in I} : v <= w

MaxLen(rows, I) ==
    CHOOSE v \in {rows[i].service_len : i \in I} :
        \A w \in {rows[i].service_len : i \in I} : v >= w

\* one output record for the rows I of a case; NULL values are skipped
StatRecord(rows, case, I) ==
    LET K == {i \in I : rows[i].normalnum # NullShort}
    IN  [case |-> case,
         shape_id |-> case[1],
         FREQUENCY |-> Cardinality(I),
         SUM_normalnum |-> IF K = {} THEN NullShort ELSE SumShort(rows, K),
         SUM_adjustnum |-> IF K = {} THEN NullRat ELSE SumRat(rows, K),
         MIN_service_len |-> IF K = {} THEN NullShort ELSE MinLen(rows, K),
         MAX_service_len |-> IF K = {} THEN NullShort ELSE MaxLen(rows, K)]

Statistics(rows) ==
    {StatRecord(rows, c, {i \in 1..Len(rows) : CaseFields(rows[i]) = c}) :
        c \in {CaseFields(rows[i]) : i \in 1..Len(rows)}}

(***************************************************************************)
(* Export: AddJoin of shapes_lyr with trips_routes_count and CopyFeatures   *)
(* (lines 290-292).                                                        *)
(***************************************************************************)
NullStats ==
    [case |-> <<>>, shape_id |-> "", FREQUENCY |-> NullShort,
     SUM_normalnum |-> NullShort, SUM_adjustnum |-> NullRat,
     MIN_service_len |-> NullShort, MAX_service_len |-> NullShort]

Feature(s, path, st) == [shape_id |-> s, path |-> path, stats |-> st]

\* variant: join_type = KEEP_COMMON
JoinExportKeepCommon(lns, counts) ==
    UNION {{Feature(s, lns[s], c) : c \in {x \in counts : x.shape_id = s}} :
              s \in DOMAIN lns}

\* join_type left at its default, KEEP_ALL
JoinExport(lns, counts) ==
    UNION {IF {x \in counts : x.shape_id = s} = {}
           THEN {Feature(s, lns[s], NullStats)}
           ELSE {Feature(s, lns[s], c) : c \in {x \in counts : x.shape_id = s}} :
              s \in DOMAIN lns}

(***************************************************************************)
(* format_schema_import (lines 49-100) for a table of nrows rows whose      *)
(* header holds n names of idfields: the first one reads every row of the  *)
(* DictReader (line 66) and writes its line to schema.ini; a second one    *)
(* finds the reader exhausted, and max([]) raises ValueError, as it does   *)
(* for the first one when the table has no row.                            *)
(***************************************************************************)
FormatSchemaImport(n, nrows) ==
    [wrote |-> n >= 1 /\ nrows >= 1,
     err |-> IF n >= 2 \/ (n >= 1 /\ nrows = 0) THEN "ValueError" ELSE ""]

(***************************************************************************)
(* delete_intoutput (lines 102-112): os.remove of schema.ini raises when   *)
(* the file is not there; the layers are deleted inside try/except.        *)
(***************************************************************************)
DeleteIntoutput(files, ziplist, intlist, datasets) ==
    IF "schema.ini" \notin files
    THEN [err |-> "OSError", files |-> files, datasets |-> datasets]
    ELSE [err |-> "",
          files |-> (files \ {"schema.ini"}) \ ziplist,
          datasets |-> datasets \ intlist]

\* intlist of line 307 (out_fc and newfc are the point feature class)
IntlistEnd ==
    {"routes", "trips", "calendar", "trips_routes_calendar", "trips_routes_count",
     "out_fc", "out_fc_lines"}

\* intlist of line 316
IntlistExcept == IntlistEnd \cup {"trips_view", "shapes_lyr"}

(***************************************************************************)
(* The text of schema.ini (lines 68-100), line by line.  The section of a   *)
(* file starts with a line [file] (standing for the three lines of          *)
(* schema_header) and holds lines ColN=name Text Width w.                   *)
(***************************************************************************)
Section(f) == [kind |-> "section", file |-> f, n |-> 0, width |-> 0]

ColLine(n, w) == [kind |-> "col", file |-> "", n |-> n, width |-> w]

\* no schema.ini in the directory
NoIni == [exists |-> FALSE, lines |-> <<>>]

\* the text Col<n> is found at the start of the text Col<m>: col_regex
\* (line 78) carries nothing after the number
RECURSIVE ColPrefix(_, _)
ColPrefix(n, m) == n = m \/ (m >= 10 /\ ColPrefix(n, m \div 10))

\* lines 73-100 for file f, column n and width w.  postfile_regex
\* '[[]f[]](?s).*(?=[[]|$)' matches from the first line [f] to the end of the
\* text (.* is greedy and, with (?s), runs over line ends); col_regex
\* 'Col<n>.*(?=\n|$)' matches, in that text, every line that starts with
\* Col<n>, and re.sub replaces them all; when it matches none, the new line
\* is put after the matched text, that is at the end of schema.ini.
UpdateIni(ini, f, n, w) ==
    IF ~ini.exists
    THEN [exists |-> TRUE, lines |-> <<Section(f), ColLine(n, w)>>]
    ELSE LET P == {i \in 1..Len(ini.lines) : ini.lines[i] = Section(f)}
         IN  IF P = {}
             THEN [ini EXCEPT !.lines = @ \o <<Section(f), ColLine(n, w)>>]
             ELSE LET p == CHOOSE i \in P : \A j \in P : i <= j
                      hit(i) == /\ i > p
                                /\ ini.lines[i].kind = "col"
                                /\ ColPrefix(n, ini.lines[i].n)
                  IN  IF \E i \in 1..Len(ini.lines) : hit(i)
                      THEN [ini EXCEPT !.lines =
                               [i \in 1..Len(ini.lines) |->
                                   IF hit(i) THEN ColLine(n, w) ELSE ini.lines[i]]]
                      ELSE [ini EXCEPT !.lines = @ \o <<ColLine(n, w)>>]

\* the files, the header positions and the value lengths of the calls
IniFiles == {"routes.txt", "trips.txt"}

IdPositions == {1, 10}

HeaderCols == IdPositions \cup {2}

Widths == {3, 5}

\* the positions of the names of idfields in the header, in header order
IdColumns == {<<>>, <<1>>, <<10>>, <<1, 10>>}

\* a call: the file, its id columns, its number of rows and the length of
\* the longest value of every column
Calls ==
    [file : IniFiles, cols : IdColumns, nrows : {0, 1}, longest : [HeaderCols -> Widths]]

\* the widths maxflen (line 66) can hold: row.keys()[i] is the i-th key of a
\* dict, whose order is not the order of the header, so the values measured
\* are those of any one column
MaxFlens(c) == {c.longest[k] : k \in HeaderCols}

\* a schema.ini left in the directory by earlier calls
EarlierIni ==
    [exists |-> TRUE,
     lines |-> <<Section("routes.txt"), ColLine(1, 3),
                 Section("trips.txt"), ColLine(1, 3), ColLine(10, 3)>>]

NoCall ==
    [file |-> "", cols |-> <<>>, nrows |-> 0, longest |-> [k \in HeaderCols |-> 0],
     err |-> ""]

(***************************************************************************)
(* The lookup of a table file (lines 145, 149, 153, 169, 217):              *)
(* filter(re.compile('.*<table>[.](csv|txt)').search, gtfs_files)[0].       *)
(* A path is a sequence of characters.                                     *)
(***************************************************************************)
TableWord(t) ==
    CASE t = "routes" -> <<"r", "o", "u", "t", "e", "s">>
      [] t = "trips" -> <<"t", "r", "i", "p", "s">>
      [] t = "calendar" -> <<"c", "a", "l", "e", "n", "d", "a", "r">>
      [] t = "calendar_dates" ->
             <<"c", "a", "l", "e", "n", "d", "a", "r", "_", "d", "a", "t", "e", "s">>
      [] OTHER -> <<"s", "h", "a", "p", "e", "s">>

\* (csv|txt)
Extensions == {<<"c", "s", "v">>, <<"t", "x", "t">>}

\* the texts the pattern of table t matches after its leading .*
Pattern(t) == {TableWord(t) \o <<".">> \o e : e \in Extensions}

\* w is in s from position i on
OccursAt(w, s, i) ==
    /\ i + Len(w) - 1 <= Len(s)
    /\ \A k \in 1..Len(w) : s[i + k - 1] = w[k]

\* re.search: the pattern matches somewhere in the path; the match is case
\* sensitive (no re.IGNORECASE) and is not anchored at the end of the path
Search(t, path) == \E w \in Pattern(t), i \in 1..Len(path) : OccursAt(w, path, i)

\* filter(...)[0]: the first path that matches, or IndexError
FirstMatch(t, files) ==
    LET m == SelectSeq(files, LAMBDA f : Search(t, f))
    IN  IF m = <<>> THEN [status |-> "IndexError", path |-> <<>>]
        ELSE [status |-> "found", path |-> m[1]]

Pending == [status |-> "pending", path |-> <<>>]

\* paths of files a feed directory may hold
FileNames ==
    {TableWord("routes") \o <<".", "t", "x", "t">>,
     <<"R", "O", "U", "T", "E", "S", ".", "T", "X", "T">>,
     TableWord("routes") \o <<".", "t", "x", "t", ".", "b", "a", "k">>,
     TableWord("trips") \o <<".", "c", "s", "v">>,
     <<"T", "r", "i", "p", "s", ".", "C", "S", "V">>,
     TableWord("calendar") \o <<".", "t", "x", "t">>,
     TableWord("calendar_dates") \o <<".", "t", "x", "t">>,
     TableWord("shapes") \o <<".", "t", "x", "t">>,
     <<"s", "t", "o", "p", "_", "t", "i", "m", "e", "s", ".", "t", "x", "t">>}

(***************************************************************************)
(* State.                                                                  *)
(***************************************************************************)
VARIABLES
    gtfs_kind,      \* what the path gtfs_dir is: "dir", "zip" or "missing"
    archive,        \* the member files of the zip archive
    keep,           \* argument keep
    current,        \* argument current
    today,          \* the date of datetime.now()
    feed,           \* the contents of the GTFS text tables
    dirfiles,       \* the files of the GTFS root directory
    gdb_exists,     \* whether out_gdb exists
    gdb,            \* tables and feature classes of out_gdb, and layers
    locals,         \* the local names bound so far
    pc,             \* the stage about to run
    err,            \* the exception caught by the handler of line 311 ("" none)
    raised,         \* the exception that reached the caller ("" none)
    log,            \* records written through logging
    points,         \* rows of the point feature class out_fc
    lines,          \* out_fc_lines: shape_id -> shape_pt_sequence of its vertices
    cal_dic,        \* service_id -> <<added, removed>>
    calendar,       \* rows of the calendar table
    trips_routes_count,
    out_routes,     \* features of out_fc_routes, the final layer
    written,        \* the files of the directory this run has written to
    files_before,   \* the files of the directory when the run started
    run,            \* "first", or "second" for a repeated call
    out_first,      \* the final layer as the first call left it
    errorlog,       \* the log file of the feed loop: "none", "exists", "removed"
    gtfs_files,     \* a list of paths as os.walk yields them
    table,          \* the table looked up in gtfs_files
    found,          \* the path chosen for it ("pending" before the lookup)
    schema_ini,     \* schema.ini, line by line, in a series of calls of
                    \* format_schema_import
    call,           \* the arguments and the outcome of the latest of these calls
    ncalls          \* the number of these calls so far

vars ==
    <<gtfs_kind, archive, keep, current, today, feed, dirfiles, gdb_exists, gdb,
      locals, pc, err, raised, log, points, lines, cal_dic, calendar,
      trips_routes_count, out_routes, written, files_before, run, out_first,
      errorlog, gtfs_files, table, found, schema_ini, call, ncalls>>

args == <<gtfs_kind, archive, keep, current, feed>>

inputs == <<args, today>>

\* what no stage of GTFStoSHPweeklynumber changes
schema == <<schema_ini, call, ncalls>>

frame == <<files_before, run, out_first, errorlog, gtfs_files, table, found, schema>>

data == <<points, lines, cal_dic, calendar, trips_routes_count, out_routes>>

Feed(idc, shp, exc, cal, trp) ==
    [idcols |-> idc, shapes |-> shp, calendar_dates |-> exc, calendar |-> cal,
     trips |-> trp, routes |-> BaseRoutes]

\* the state every run starts in, for given arguments and input files
Start(kind, arch, kp, cur, day, files, fd) ==
    /\ gtfs_kind = kind
    /\ archive = arch
    /\ keep = kp
    /\ current = cur
    /\ today = day
    /\ feed = fd
    /\ dirfiles = files
    /\ gdb_exists \in BOOLEAN
    /\ gdb = {}
    /\ locals = {}
    /\ pc = "start"
    /\ err = ""
    /\ raised = ""
    /\ log = <<>>
    /\ points = <<>>
    /\ lines = [s \in {} |-> <<>>]
    /\ cal_dic = [s \in {} |-> <<0, 0>>]
    /\ calendar = <<>>
    /\ trips_routes_count = {}
    /\ out_routes = {}
    /\ written = {}
    /\ files_before = files
    /\ run = "first"
    /\ out_first = {}

\* the table files in the directory: all of them, or all but one
FileSets == {Tables} \cup {Tables \ {t} : t \in Tables}

IdCols == [ImportedTables -> 0..MaxIdCols]

\* runs in which every stage can be reached: a directory with keep, or an
\* archive without members beside the already extracted files
GoodRuns == {<<"dir", {}, TRUE>>, <<"zip", {}, FALSE>>}

\* every kind of path, archive, directory content and header, on the base feed
InitControl ==
    \E kind \in {"dir", "zip", "missing"}, arch \in {{}, Tables},
       kp \in BOOLEAN, cur \in BOOLEAN, fs \in FileSets, ini \in SUBSET {"schema.ini"},
       idc \in IdCols :
        /\ kind # "zip" => arch = {}
        /\ Start(kind, arch, kp, cur, BaseDay, fs \cup ini,
                 Feed(idc, BaseShapes, BaseExceptions, BaseCalendar, BaseTrips))

\* every shapes table
InitShapes ==
    \E g \in GoodRuns, shp \in SeqUpTo(ShapeRows, MaxShapeRows) :
        Start(g[1], g[2], g[3], TRUE, BaseDay, Tables,
              Feed(BaseIdCols, shp, BaseExceptions, BaseCalendar, BaseTrips))

\* every calendar_dates table
InitExceptions ==
    \E g \in GoodRuns, exc \in SeqUpTo(ExcRowsFull, MaxExcRows) :
        Start(g[1], g[2], g[3], TRUE, BaseDay, Tables,
              Feed(BaseIdCols, BaseShapes, exc, BaseCalendar, BaseTrips))

\* every calendar table, with added and removed dates
InitCalendar ==
    \E g \in GoodRuns, cur \in BOOLEAN, day \in EvalDates, cal \in CalendarTables,
       exc \in SeqUpTo(ExcRowsSmall, MaxExcRows) :
        Start(g[1], g[2], g[3], cur, day, Tables,
              Feed(BaseIdCols, BaseShapes, exc, cal, BaseTrips))

\* every trips table
InitTrips ==
    \E g \in GoodRuns, trp \in SeqUpTo(TripRows, MaxTrips) :
        Start(g[1], g[2], g[3], TRUE, BaseDay, Tables,
              Feed(BaseIdCols, BaseShapes, BaseExceptions, BaseCalendar, trp))

\* the shapes tables of the feeds of the loop: the base one, one with a row
\* that is logged, one with a single point
LoopShapes ==
    {BaseShapes,
     <<ShapeRow("A", 1, "badnum"), ShapeRow("B", 1, "ok"), ShapeRow("B", 2, "ok")>>,
     <<ShapeRow("A", 1, "ok")>>}

\* a call from the loop over the feeds (Pollution_variables.py, lines 222-235):
\* the path is a directory or an archive, keep is False, current is left at
\* its default, and the log file of the feed has been created (line 231)
InitFeedLoop ==
    \E kind \in {"dir", "zip"}, arch \in {{}, Tables}, fs \in FileSets,
       ini \in SUBSET {"schema.ini"}, shp \in LoopShapes :
        /\ kind # "zip" => arch = {}
        /\ Start(kind, arch, FALSE, TRUE, BaseDay, fs \cup ini,
                 Feed(BaseIdCols, shp, BaseExceptions, BaseCalendar, BaseTrips))
        /\ errorlog = "exists"

\* no lookup is followed character by character in a run of the pipeline
NoLookup == gtfs_files = <<>> /\ table = "routes" /\ found = Pending

\* the text of schema.ini is not followed in a run of the pipeline
NoSchema == schema_ini = NoIni /\ call = NoCall /\ ncalls = 0

Init ==
    /\ \/ /\ InitControl \/ InitShapes \/ InitExceptions \/ InitCalendar \/ InitTrips
          /\ errorlog = "none"
       \/ InitFeedLoop
    /\ NoLookup
    /\ NoSchema

(***************************************************************************)
(* The stages of GTFStoSHPweeklynumber (lines 114-319).                    *)
(***************************************************************************)
\* an exception raised inside the try of line 125
Fail(e) == pc' = "handler" /\ err' = e

\* lines 116-124 and 318-319: the geodatabase is created first, then the path
\* is checked
CheckInput ==
    /\ pc = "start"
    /\ gdb_exists' = TRUE
    /\ IF gtfs_kind = "missing"
       THEN pc' = "done" /\ raised' = "Exception"
       ELSE pc' = "unzip" /\ raised' = raised
    /\ UNCHANGED <<inputs, frame, written, dirfiles, gdb, locals, err, log, data>>

\* lines 127-137: line 132 reads gtfs_rootdir, bound only at line 135, once
\* for every member of the archive; extractall (line 133) writes every member
Unzip ==
    /\ pc = "unzip"
    /\ IF gtfs_kind = "zip"
       THEN IF archive # {}
            THEN /\ Fail("UnboundLocalError")
                 /\ locals' = locals \cup {"zipfilelist"}
                 /\ UNCHANGED <<dirfiles, written>>
            ELSE /\ pc' = "routes"
                 /\ err' = err
                 /\ locals' = locals \cup {"zipfilelist", "gtfs_rootdir"}
                 /\ dirfiles' = dirfiles \cup archive
                 /\ written' = written \cup archive
       ELSE /\ pc' = "routes"
            /\ err' = err
            /\ locals' = locals \cup {"gtfs_rootdir"}
            /\ UNCHANGED <<dirfiles, written>>
    /\ UNCHANGED <<inputs, frame, gdb_exists, gdb, raised, log, data>>

\* the number of data rows of the text file of an imported table
RowCount(fd, t) ==
    CASE t = "routes" -> Cardinality(fd.routes)
      [] t = "trips" -> Len(fd.trips)
      [] OTHER -> Len(fd.calendar)

NextTable(t) ==
    CASE t = "routes" -> "trips"
      [] t = "trips" -> "calendar"
      [] OTHER -> "shapes"

\* lines 145-156, for routes, trips and calendar in turn: filter(...)[0]
\* raises IndexError when no file matches
ImportTable ==
    /\ pc \in ImportedTables
    /\ IF pc \notin dirfiles
       THEN /\ Fail("IndexError")
            /\ UNCHANGED <<dirfiles, written, gdb, calendar>>
       ELSE LET f == FormatSchemaImport(feed.idcols[pc], RowCount(feed, pc))
            IN  /\ dirfiles' = IF f.wrote THEN dirfiles \cup {"schema.ini"} ELSE dirfiles
                /\ written' = IF f.wrote THEN written \cup {"schema.ini"} ELSE written
                /\ IF f.err # ""
                   THEN Fail(f.err) /\ UNCHANGED <<gdb, calendar>>
                   ELSE /\ pc' = NextTable(pc)
                        /\ err' = err
                        /\ gdb' = gdb \cup {pc}
                        /\ calendar' = IF pc = "calendar" THEN feed.calendar ELSE calendar
    /\ UNCHANGED <<inputs, frame, gdb_exists, locals, raised, log, points, lines,
                   cal_dic, trips_routes_count, out_routes>>

\* lines 166-197: the point feature class, then one insert per row of
\* shapes.txt, each inside its own try
CreatePoints ==
    /\ pc = "shapes"
    /\ gdb' = gdb \cup {"out_fc"}
    /\ locals' = locals \cup {"newfc"}
    /\ IF "shapes" \notin dirfiles
       THEN Fail("IndexError") /\ UNCHANGED <<points, log>>
       ELSE /\ pc' = "lines"
            /\ err' = err
            /\ points' = InsertedPoints(feed.shapes)
            /\ log' = log \o WarningsFor(SkippedRows(feed.shapes))
    /\ UNCHANGED <<inputs, frame, written, dirfiles, gdb_exists, raised, lines,
                   cal_dic, calendar, trips_routes_count, out_routes>>

\* lines 201-202
ConvertToLines ==
    /\ pc = "lines"
    /\ locals' = locals \cup {"newfc_lines"}
    /\ lines' = PointsToLine(points)
    /\ gdb' = gdb \cup {"out_fc_lines"}
    /\ pc' = "caldates"
    /\ UNCHANGED <<inputs, frame, written, dirfiles, gdb_exists, err, raised,
                   log, points, cal_dic, calendar, trips_routes_count,
                   out_routes>>

\* lines 217-226
ReadCalendarDates ==
    /\ pc = "caldates"
    /\ IF "calendar_dates" \notin dirfiles
       THEN Fail("IndexError") /\ UNCHANGED cal_dic
       ELSE LET c == CountExceptions(feed.calendar_dates, cal_dic)
            IN  IF c.err # ""
                THEN Fail(c.err) /\ UNCHANGED cal_dic
                ELSE pc' = "cursor" /\ err' = err /\ cal_dic' = c.dic
    /\ UNCHANGED <<inputs, frame, written, dirfiles, gdb_exists, gdb, locals,
                   raised, log, points, lines, calendar, trips_routes_count,
                   out_routes>>

\* the dates datetime.now() (line 265) can give: the day of the first call,
\* or for a repeated call that day or a later one
Clock == IF run = "first" THEN {today} ELSE {d \in EvalDates : d >= today}

\* lines 233-268
UpdateCalendar ==
    /\ pc = "cursor"
    /\ \E now \in Clock :
          LET u == UpdateCursor(calendar, 1, cal_dic, current, now)
          IN  /\ today' = now
              /\ calendar' = u.table
              /\ IF u.err # "" THEN Fail(u.err) ELSE pc' = "summary" /\ err' = err
    /\ UNCHANGED <<args, frame, written, dirfiles, gdb_exists, gdb, locals, raised, log,
                   points, lines, cal_dic, trips_routes_count, out_routes>>

\* lines 271-282
SummarizeTrips ==
    /\ pc = "summary"
    /\ trips_routes_count' = Statistics(JoinTrips(feed.trips, calendar, feed.routes))
    /\ gdb' = gdb \cup {"trips_view", "trips_routes_calendar", "trips_routes_count"}
    /\ pc' = "export"
    /\ UNCHANGED <<inputs, frame, written, dirfiles, gdb_exists, locals, err,
                   raised, log, points, lines, cal_dic, calendar, out_routes>>

\* lines 290-292
ExportRoutes ==
    /\ pc = "export"
    /\ out_routes' = JoinExport(lines, trips_routes_count)
    /\ gdb' = gdb \cup {"shapes_lyr", "out_fc_routes"}
    /\ pc' = "cleanup"
    /\ UNCHANGED <<inputs, frame, written, dirfiles, gdb_exists, locals, err,
                   raised, log, points, lines, cal_dic, calendar,
                   trips_routes_count>>

\* variant: the intermediate outputs are deleted whatever keep is
CleanupWithoutKeep ==
    /\ pc = "cleanup"
    /\ IF ~({"gtfs_rootdir", "zipfilelist"} \subseteq locals)
       THEN /\ Fail("UnboundLocalError")
            /\ gdb' = gdb \ {"trips_view", "shapes_lyr"}
            /\ dirfiles' = dirfiles
       ELSE LET d == DeleteIntoutput(dirfiles, archive, IntlistEnd,
                                     gdb \ {"trips_view", "shapes_lyr"})
            IN  /\ dirfiles' = d.files
                /\ gdb' = d.datasets
                /\ IF d.err # "" THEN Fail(d.err) ELSE pc' = "done" /\ err' = err
    /\ UNCHANGED <<inputs, frame, written, gdb_exists, locals, raised, log, data>>

\* lines 297-308: the two layers are deleted; without keep, the arguments of
\* delete_intoutput are evaluated (zipfilelist is bound only by line 130) and
\* the intermediate outputs deleted
Cleanup ==
    /\ pc = "cleanup"
    /\ IF keep = FALSE
       THEN IF ~({"gtfs_rootdir", "zipfilelist"} \subseteq locals)
            THEN /\ Fail("UnboundLocalError")
                 /\ gdb' = gdb \ {"trips_view", "shapes_lyr"}
                 /\ dirfiles' = dirfiles
            ELSE LET d == DeleteIntoutput(dirfiles, archive, IntlistEnd,
                                          gdb \ {"trips_view", "shapes_lyr"})
                 IN  /\ dirfiles' = d.files
                     /\ gdb' = d.datasets
                     /\ IF d.err # "" THEN Fail(d.err) ELSE pc' = "done" /\ err' = err
       ELSE /\ pc' = "done"
            /\ err' = err
            /\ gdb' = gdb \ {"trips_view", "shapes_lyr"}
            /\ dirfiles' = dirfiles
    /\ UNCHANGED <<inputs, frame, written, gdb_exists, locals, raised, log, data>>

\* lines 311-317: the error is logged; without keep, the arguments of
\* delete_intoutput are evaluated and the intermediate outputs deleted; an
\* exception raised here reaches the caller; nothing is raised again
ExceptHandler ==
    /\ pc = "handler"
    /\ log' = Append(log, [level |-> "ERROR", what |-> err])
    /\ pc' = "done"
    /\ IF keep = FALSE
       THEN IF ~({"gtfs_rootdir", "zipfilelist", "newfc", "newfc_lines"} \subseteq locals)
            THEN /\ raised' = "UnboundLocalError"
                 /\ UNCHANGED <<dirfiles, gdb>>
            ELSE LET d == DeleteIntoutput(dirfiles, archive, IntlistExcept, gdb)
                 IN  /\ dirfiles' = d.files
                     /\ gdb' = d.datasets
                     /\ raised' = d.err
       ELSE /\ raised' = raised
            /\ UNCHANGED <<dirfiles, gdb>>
    /\ UNCHANGED <<inputs, frame, written, gdb_exists, locals, err, data>>

(***************************************************************************)
(* The callers of GTFStoSHPweeklynumber (src/Pollution_variables.py).       *)
(***************************************************************************)
\* the script is run again: the call of lines 219-220 is made whatever the
\* first one left, with the same arguments and keep = False; the directory
\* and the geodatabase are as the first call left them
Rerun ==
    /\ pc = "done"
    /\ run = "first"
    /\ keep = FALSE
    /\ errorlog = "none"
    /\ run' = "second"
    /\ out_first' = out_routes
    /\ files_before' = dirfiles
    /\ written' = {}
    /\ locals' = {}
    /\ pc' = "start"
    /\ err' = ""
    /\ raised' = ""
    /\ log' = <<>>
    /\ cal_dic' = [s \in {} |-> <<0, 0>>]
    /\ UNCHANGED <<inputs, dirfiles, gdb_exists, gdb, points, lines, calendar,
                   trips_routes_count, out_routes, errorlog, gtfs_files, table, found,
                   schema>>

\* line 24 and line 233: the file handler is added to the logger GTFStoSHP
HandlerLogger == "GTFStoSHP"

\* GTFStoSHP.py lines 195, 302 and 313: logging.warning and logging.error log
\* on the root logger
RecordLogger == "root"

\* a record logged on logger l is handled by the handlers of l and of the
\* loggers above it
Ancestors(l) == IF l = "root" THEN {"root"} ELSE {l, "root"}

\* what the file handler of level WARNING (line 232) has written of recs
FileRecords(recs) ==
    IF HandlerLogger \in Ancestors(RecordLogger)
    THEN SelectSeq(recs, LAMBDA r : r.level \in {"WARNING", "ERROR"})
    ELSE <<>>

\* lines 236-238, reached when the call of line 234 returns: the handler is
\* closed and the file removed if its size is 0
CloseLog ==
    /\ pc = "done"
    /\ raised = ""
    /\ errorlog = "exists"
    /\ pc' = "closed"
    /\ errorlog' = IF Len(FileRecords(log)) = 0 THEN "removed" ELSE "exists"
    /\ UNCHANGED <<inputs, dirfiles, gdb_exists, gdb, locals, err, raised, log, data,
                   written, files_before, run, out_first, gtfs_files, table, found,
                   schema>>

Next ==
    \/ Rerun
    \/ CloseLog
    \/ CheckInput
    \/ Unzip
    \/ ImportTable
    \/ CreatePoints
    \/ ConvertToLines
    \/ ReadCalendarDates
    \/ UpdateCalendar
    \/ SummarizeTrips
    \/ ExportRoutes
    \/ Cleanup
    \/ ExceptHandler

Spec == Init /\ [][Next]_vars

(***************************************************************************)
(* The lookup of one table in one list of paths, on its own.               *)
(***************************************************************************)
InitFind ==
    /\ Start("dir", {}, TRUE, TRUE, BaseDay, Tables,
             Feed(BaseIdCols, BaseShapes, BaseExceptions, BaseCalendar, BaseTrips))
    /\ errorlog = "none"
    /\ gtfs_files \in SeqUpTo(FileNames, MaxFiles)
    /\ table \in Tables
    /\ found = Pending
    /\ NoSchema

LocateTable ==
    /\ found = Pending
    /\ found' = FirstMatch(table, gtfs_files)
    /\ UNCHANGED <<inputs, dirfiles, gdb_exists, gdb, locals, pc, err, raised, log,
                   data, written, files_before, run, out_first, errorlog, gtfs_files,
                   table, schema>>

NextFind == LocateTable

SpecFind == InitFind /\ [][NextFind]_vars

(***************************************************************************)
(* A series of calls of format_schema_import on one directory, on its own.  *)
(***************************************************************************)
InitSchema ==
    /\ Start("dir", {}, TRUE, TRUE, BaseDay, Tables,
             Feed(BaseIdCols, BaseShapes, BaseExceptions, BaseCalendar, BaseTrips))
    /\ errorlog = "none"
    /\ NoLookup
    /\ schema_ini \in {NoIni, EarlierIni}
    /\ call = NoCall
    /\ ncalls = 0

\* lines 49-100: the first id column of the header is measured and written;
\* a second one, or the first one of a table without rows, raises ValueError
FormatCall ==
    /\ ncalls < MaxCalls
    /\ ncalls' = ncalls + 1
    /\ \E c \in Calls :
          LET r == FormatSchemaImport(Len(c.cols), c.nrows)
          IN  /\ call' = [file |-> c.file, cols |-> c.cols, nrows |-> c.nrows,
                          longest |-> c.longest, err |-> r.err]
              /\ IF r.wrote
                 THEN \E w \in MaxFlens(c) :
                          schema_ini' = UpdateIni(schema_ini, c.file, c.cols[1], w)
                 ELSE schema_ini' = schema_ini
    /\ UNCHANGED <<inputs, dirfiles, gdb_exists, gdb, locals, pc, err, raised, log,
                   data, written, files_before, run, out_first, errorlog, gtfs_files,
                   table, found>>

NextSchema == FormatCall

SpecSchema == InitSchema /\ [][NextSchema]_vars

(***************************************************************************)
(* Properties.                                                             *)
(***************************************************************************)
\* a calendar row the cursor has updated
Processed(row) == row.service_len # NullShort

ProcessedRows == {calendar[i] : i \in {k \in 1..Len(calendar) : Processed(calendar[k])}}

\* the number of weekday flags set
FlagCount(row) == Cardinality({k \in 1..7 : row.days[k] = 1})

\* end_date - start_date in days
SpanDays(row) == ParseDate(row.end_date) - ParseDate(row.start_date)

\* (added_count - removed_count) / (service_span_days / 7)
ExceptionDelta(row) ==
    RatDiv(Rat(row.date_added - row.date_removed, 1), Rat(row.service_len, 7))

\* the service has not started on the day of the run and current is set
FutureUnderCurrent(row) ==
    current = TRUE /\ ParseDate(row.start_date) > ParseDate(today)

\* C1: every calendar row the cursor has updated holds an adjusted weekly
\* count (adjustnum) that is a number greater than or equal to 0.
C1_AdjustnumNonNegative ==
    \A row \in ProcessedRows : row.adjustnum.d > 0 /\ row.adjustnum.n >= 0

\* C1 witness: an updated row whose weekday count plus weekly exception
\* average is negative, stored as 0.
C1_Witness ==
    \E row \in ProcessedRows :
        /\ ~FutureUnderCurrent(row)
        /\ RatLt(RatAdd(Rat(FlagCount(row), 1), ExceptionDelta(row)), Rat(0, 1))
        /\ RatEq(row.adjustnum, Rat(0, 1))

\* the formulas of service_span_days and weekly_exception_delta
SpanAndDeltaHold(row) ==
    /\ row.service_len = Max2(SpanDays(row), 1)
    /\ RatEq(row.date_weekavg, ExceptionDelta(row))

\* adjusted_weekly = nominal_weekly + weekly_exception_delta when that is >= 0
AdjustedIsSum(row) ==
    LET sum == RatAdd(Rat(row.normalnum, 1), ExceptionDelta(row))
    IN  ~RatLt(sum, Rat(0, 1)) => RatEq(row.adjustnum, sum)

\* Mon/Wed/Fri over 70 days with 2 added and 0 removed dates
IsExampleRow(row) ==
    /\ row.days = MonWedFri
    /\ SpanDays(row) = 70
    /\ row.date_added = 2
    /\ row.date_removed = 0

ExampleValues(row) ==
    /\ row.normalnum = 3
    /\ RatEq(row.date_weekavg, Rat(1, 5))
    /\ RatEq(row.adjustnum, Rat(16, 5))

\* C2 as claimed: for every updated calendar row, service_len is
\* max(end - start, 1), the weekly exception average is (added - removed) /
\* (service_len / 7), adjustnum is normalnum plus that average when the sum
\* is not negative, and the Mon/Wed/Fri 70-day example row gets 3, 0.2
\* and 3.2.
C2_Original ==
    \A row \in ProcessedRows :
        /\ SpanAndDeltaHold(row)
        /\ AdjustedIsSum(row)
        /\ IsExampleRow(row) => ExampleValues(row)

\* C2 amended: the span and average formulas hold for every updated row; the
\* sum and the example values hold for every updated row except those that
\* start after the day of the run while current is set (these hold 0 and 0).
C2_SpanDeltaAndSum ==
    \A row \in ProcessedRows :
        /\ SpanAndDeltaHold(row)
        /\ IF FutureUnderCurrent(row)
           THEN row.normalnum = 0 /\ RatEq(row.adjustnum, Rat(0, 1))
           ELSE /\ row.normalnum = FlagCount(row)
                /\ AdjustedIsSum(row)
                /\ IsExampleRow(row) => ExampleValues(row)

\* C2 witness: the example row, updated, holding 3, 0.2 and 3.2.
C2_Witness ==
    \E row \in ProcessedRows :
        /\ IsExampleRow(row)
        /\ ~FutureUnderCurrent(row)
        /\ ExampleValues(row)

\* C3: with current set, every updated calendar row whose start_date is after
\* the day of the run holds normalnum = 0 and adjustnum = 0.
C3_FutureServiceIsZero ==
    \A row \in ProcessedRows :
        FutureUnderCurrent(row) =>
            row.normalnum = 0 /\ RatEq(row.adjustnum, Rat(0, 1))

\* C3 witness: an updated future row with weekday flags set and more added
\* than removed dates, holding 0 and 0.
C3_Witness ==
    \E row \in ProcessedRows :
        /\ FutureUnderCurrent(row)
        /\ FlagCount(row) > 0
        /\ row.date_added > row.date_removed
        /\ row.normalnum = 0
        /\ RatEq(row.adjustnum, Rat(0, 1))

\* a service with all seven flags set and no calendar exception
AllWeekNoException(row) ==
    /\ FlagCount(row) = 7
    /\ \A i \in 1..Len(feed.calendar_dates) :
          feed.calendar_dates[i].service_id # row.service_id

\* C4 as claimed: every updated row with all seven weekday flags set and no
\* calendar exception holds normalnum = adjustnum = 7.
C4_Original ==
    \A row \in ProcessedRows :
        AllWeekNoException(row) =>
            row.normalnum = 7 /\ RatEq(row.adjustnum, Rat(7, 1))

\* C4 amended: every updated row with all seven weekday flags set and no
\* calendar exception holds normalnum = adjustnum = 7, unless current is set
\* and its start_date is after the day of the run (then both are 0).
C4_AllWeekIsSeven ==
    \A row \in ProcessedRows :
        AllWeekNoException(row) =>
            IF FutureUnderCurrent(row)
            THEN row.normalnum = 0 /\ RatEq(row.adjustnum, Rat(0, 1))
            ELSE row.normalnum = 7 /\ RatEq(row.adjustnum, Rat(7, 1))

\* C4 witness: an updated all-week row without exceptions, already started,
\* holding 7 and 7.
C4_Witness ==
    \E row \in ProcessedRows :
        /\ AllWeekNoException(row)
        /\ ~FutureUnderCurrent(row)
        /\ row.normalnum = 7
        /\ RatEq(row.adjustnum, Rat(7, 1))

\* the shape_ids used by the trips table
TripShapes == {feed.trips[i].shape_id : i \in 1..Len(feed.trips)}

IsAscending(q) == \A i \in 1..(Len(q) - 1) : q[i] <= q[i + 1]

\* C5 as claimed: every assembled line visits its points by ascending
\* shape_pt_sequence, whatever the order of the rows of shapes.txt.
C5_LinesFollowSequence == \A s \in DOMAIN lines : IsAscending(lines[s])

\* the final layer has been written (it is never deleted afterwards)
Exported == "out_fc_routes" \in gdb

Summarized == "trips_routes_count" \in gdb

CountOfShape(s) == Cardinality({c \in trips_routes_count : c.shape_id = s})

\* C7 as claimed: trips_routes_count holds exactly one record for every
\* shape_id used by a trip and none for the others.
C7_Original ==
    Summarized =>
        \A s \in ShapeIds : CountOfShape(s) = IF s \in TripShapes THEN 1 ELSE 0

\* the case values of a trip: its shape, its route and the route's attributes
TripCase(t) ==
    LET r == CHOOSE x \in feed.routes : x.route_id = t.route_id
    IN  <<t.shape_id, t.route_id, r.route_short_name, r.route_desc, r.route_type>>

\* C7 amended: trips_routes_count holds exactly one record for every distinct
\* combination (shape_id, route_id, route_short_name, route_desc, route_type)
\* of a trip and no other record; a shape used by trips of k routes has k
\* records.
C7_OneRecordPerCase ==
    Summarized =>
        /\ \A i \in 1..Len(feed.trips) :
              Cardinality({c \in trips_routes_count :
                              c.case = TripCase(feed.trips[i])}) = 1
        /\ \A c \in trips_routes_count :
              \E i \in 1..Len(feed.trips) : c.case = TripCase(feed.trips[i])
        /\ \A s \in ShapeIds :
              CountOfShape(s) =
                  Cardinality({feed.trips[i].route_id :
                                  i \in {k \in 1..Len(feed.trips) :
                                            feed.trips[k].shape_id = s}})

\* C7 witness: a shape used by trips of two routes, with two records.
C7_Witness == Summarized /\ \E s \in TripShapes : CountOfShape(s) = 2

RequiredTables == {"routes", "trips", "calendar", "calendar_dates"}

\* a required table is neither in the directory nor in the archive
TableMissing == \E t \in RequiredTables : t \notin dirfiles \cup archive

\* C8 as claimed: a run on an existing directory or archive that lacks a
\* required table ends with an exception reaching the caller.
C8_MissingTableRaises ==
    (pc = "done" /\ gtfs_kind # "missing" /\ TableMissing) => raised # ""

\* number of rows of table rows that satisfy P
NumRows(rows, P(_)) == Cardinality({i \in 1..Len(rows) : P(rows[i])})

\* calendar_dates.txt holds only well-formed rows (exception_type 1 or 2) and
\* malformed ones (not a number, too few columns)
OnlyValidOrMalformed ==
    \A i \in 1..Len(feed.calendar_dates) :
        feed.calendar_dates[i].exception_type \in {"1", "2", "x", ""}

\* C9 as claimed: the shapes stage and the calendar_dates stage skip malformed
\* rows without aborting the run: the stage goes on to the next one, every
\* well-formed row is processed, and (for shapes) every malformed row is
\* logged.
C9_MalformedRowsSkipped ==
    [][/\ (pc = "shapes" /\ "shapes" \in dirfiles) =>
              /\ pc' = "lines"
              /\ points' = SelectSeq(feed.shapes, LAMBDA r : r.kind = "ok")
              /\ Len(log') = Len(log) + NumRows(feed.shapes, LAMBDA r : r.kind # "ok")
       /\ (pc = "caldates" /\ "calendar_dates" \in dirfiles /\ OnlyValidOrMalformed) =>
              /\ pc' = "cursor"
              /\ \A sid \in {"S1", "S2"} :
                    DicGet(cal_dic', sid) =
                        <<NumRows(feed.calendar_dates,
                                  LAMBDA r : r.service_id = sid /\ r.exception_type = "1"),
                          NumRows(feed.calendar_dates,
                                  LAMBDA r : r.service_id = sid /\ r.exception_type = "2")>>
      ]_vars

\* C10 as claimed: a run in which the handler caught an error has logged it,
\* holds no intermediate output unless keep is set, and ends with that error
\* reaching the caller.
C10_FailedRunCleansAndReraises ==
    (pc = "done" /\ err # "") =>
        /\ \E i \in 1..Len(log) : log[i] = [level |-> "ERROR", what |-> err]
        /\ keep = FALSE => gdb \cap IntlistExcept = {}
        /\ raised = err


\* no table, feature class or layer of the intermediate outputs is in out_gdb,
\* and the directory holds no file it did not hold when the run started
NoIntermediate == gdb \cap IntlistExcept = {} /\ dirfiles \subseteq files_before

\* C11 as claimed: when a call with keep = False on a feed whose final layer
\* was written has ended, no intermediate output is left (imported tables,
\* point and line feature classes, summary tables, schema.ini, extracted
\* files), and the final layer after the second of two calls with the same
\* arguments is the one the first call wrote.
C11_RepeatedRunsAgree ==
    (pc = "done" /\ keep = FALSE /\ Exported) =>
        /\ NoIntermediate
        /\ run = "second" => out_routes = out_first

Views == {"trips_view", "shapes_lyr"}

\* every file the directory held or the run wrote is there, every dataset
\* created so far is in out_gdb, and a run that ended without error holds all
\* its intermediate outputs and the final layer, but not the two views
KeptAll ==
    /\ files_before \cup written \subseteq dirfiles
    /\ "newfc" \in locals => {"routes", "trips", "calendar", "out_fc"} \subseteq gdb
    /\ "newfc_lines" \in locals => "out_fc_lines" \in gdb
    /\ (pc = "done" /\ err = "") =>
           /\ IntlistEnd \cup {"out_fc_routes"} \subseteq gdb
           /\ gdb \cap Views = {}

\* C12: with keep = True a run on a directory or archive, successful or
\* failing, deletes no intermediate output: the imported tables, the point and
\* line feature classes, the two summary tables, schema.ini and the files of
\* the directory all remain; only trips_view and shapes_lyr are removed.
C12_KeepDeletesNothing == (keep = TRUE /\ gtfs_kind # "missing") => KeptAll

\* C12 witness: a run with keep = True that wrote schema.ini has ended without
\* error; the views are gone and everything else is there.
C12_Witness ==
    /\ keep = TRUE
    /\ pc = "done"
    /\ err = ""
    /\ "schema.ini" \in written \cap dirfiles
    /\ IntlistEnd \subseteq gdb
    /\ gdb \cap Views = {}

\* C13 as claimed: for a zip archive, the step that follows the check of the
\* path extracts every member of the archive into the directory of the
\* archive and goes on to the import of the first table.
C13_ArchiveExtractedThenImported ==
    [][(pc = "unzip" /\ gtfs_kind = "zip") =>
          /\ pc' = "routes"
          /\ archive \subseteq dirfiles'
          /\ archive \subseteq written'
      ]_vars

\* the number of well-formed rows of shapes.txt for shape s
NumPoints(s) == NumRows(feed.shapes, LAMBDA r : r.shape_id = s /\ r.kind = "ok")

\* the log holds a record that is not the warning of a malformed row
OtherRecordLogged == \E i \in 1..Len(log) : log[i].what \notin {"short", "badnum"}

\* C14 as claimed: when the lines have been built, a shape with a single
\* point has no line and an error recorded for it, and every shape with two
\* or more points has its line.
C14_ShortShapeRecorded ==
    pc = "caldates" =>
        \A s \in ShapeIds :
            /\ NumPoints(s) = 1 => s \notin DOMAIN lines /\ OtherRecordLogged
            /\ NumPoints(s) >= 2 => s \in DOMAIN lines

\* the lower-case form of a character
LowerChar(c) ==
    CASE c = "R" -> "r" [] c = "O" -> "o" [] c = "U" -> "u" [] c = "T" -> "t"
      [] c = "E" -> "e" [] c = "S" -> "s" [] c = "X" -> "x" [] c = "C" -> "c"
      [] c = "V" -> "v" [] OTHER -> c

LowerPath(path) == [i \in 1..Len(path) |-> LowerChar(path[i])]

\* the path ends in <table>.csv or <table>.txt, whatever the case of its
\* letters
NamedFor(t, path) ==
    \E w \in Pattern(t) :
        /\ Len(path) >= Len(w)
        /\ OccursAt(w, LowerPath(path), Len(path) - Len(w) + 1)

\* C15 as claimed: the lookup of a table finds a file whenever the list
\* holds one named <table>.csv or <table>.txt in any mix of upper and lower
\* case, and the path it selects always ends in <table>.csv or <table>.txt.
C15_TableFileFound ==
    found # Pending =>
        /\ (\E i \in 1..Len(gtfs_files) : NamedFor(table, gtfs_files[i])) =>
               found.status = "found"
        /\ found.status = "found" => NamedFor(table, found.path)

\* the processing of a feed by the loop has ended: the lines after the call
\* have run, or the call raised and the exception left the loop
FeedEnded ==
    /\ errorlog # "none"
    /\ pc = "closed" \/ (pc = "done" /\ raised # "")

\* C16 as claimed: when the processing of a feed by the loop has ended, the
\* log file of the feed is there if and only if something was written to it.
C16_EmptyLogDeleted ==
    FeedEnded => (errorlog = "exists" <=> Len(FileRecords(log)) > 0)

\* the number of rows of calendar_dates.txt of service sid with exception_type et
NumExceptions(sid, et) ==
    NumRows(feed.calendar_dates,
            LAMBDA r : r.service_id = sid /\ r.exception_type = et)

\* C17 as claimed: when calendar_dates.txt has been read, the added count of
\* every service_id is its number of rows with exception_type 1 and the
\* removed count its number of rows with exception_type 2; rows with another
\* exception_type count for neither.
C17_CountsByExceptionType ==
    pc = "cursor" =>
        \A sid \in {"S1", "S2"} :
            DicGet(cal_dic, sid) = <<NumExceptions(sid, "1"), NumExceptions(sid, "2")>>

\* the calendar row of the service of trip t, if there is one
HasService(t) == \E i \in 1..Len(calendar) : calendar[i].service_id = t.service_id

ServiceRow(t) ==
    calendar[FirstIndex({i \in 1..Len(calendar) : calendar[i].service_id = t.service_id})]

\* trip n belongs to the group of case c and its service has a calendar row
Counted(c, n) == TripCase(feed.trips[n]) = c /\ HasService(feed.trips[n])

\* the sums over the trips 1..n of the group of case c, each trip once
RECURSIVE NominalSum(_, _)
NominalSum(c, n) ==
    IF n = 0 THEN 0
    ELSE NominalSum(c, n - 1)
         + (IF Counted(c, n) THEN ServiceRow(feed.trips[n]).normalnum ELSE 0)

RECURSIVE AdjustedSum(_, _)
AdjustedSum(c, n) ==
    IF n = 0 THEN Rat(0, 1)
    ELSE IF Counted(c, n)
         THEN RatAdd(AdjustedSum(c, n - 1), ServiceRow(feed.trips[n]).adjustnum)
         ELSE AdjustedSum(c, n - 1)

\* the service_len of the calendar rows of the trips of the group of case c
GroupSpans(c) ==
    {ServiceRow(feed.trips[n]).service_len :
        n \in {k \in 1..Len(feed.trips) : Counted(c, k)}}

\* C18: when the trips have been summarised, the record of every group of
\* trips sharing (shape_id, route_id, route_short_name, route_desc,
\* route_type) holds the sums of normalnum and of adjustnum of the calendar
\* rows of its trips, each trip counted once, and the least and the greatest
\* service_len of those rows; a group none of whose trips has a calendar row
\* holds NULL in the four fields.
C18_GroupSumsAndSpans ==
    pc = "export" =>
        \A n \in 1..Len(feed.trips) :
            LET c == TripCase(feed.trips[n])
            IN  \A rec \in trips_routes_count :
                    rec.case = c =>
                        IF GroupSpans(c) = {}
                        THEN /\ rec.SUM_normalnum = NullShort
                             /\ IsNullRat(rec.SUM_adjustnum)
                             /\ rec.MIN_service_len = NullShort
                             /\ rec.MAX_service_len = NullShort
                        ELSE /\ rec.SUM_normalnum = NominalSum(c, Len(feed.trips))
                             /\ ~IsNullRat(rec.SUM_adjustnum)
                             /\ RatEq(rec.SUM_adjustnum, AdjustedSum(c, Len(feed.trips)))
                             /\ rec.MIN_service_len \in GroupSpans(c)
                             /\ rec.MAX_service_len \in GroupSpans(c)
                             /\ \A v \in GroupSpans(c) :
                                   rec.MIN_service_len <= v /\ v <= rec.MAX_service_len

\* C18 witness: the record of a group of two trips of services of different
\* length, holding the sum of both weekly counts.
C18_Witness ==
    /\ pc = "export"
    /\ \E rec \in trips_routes_count :
          /\ rec.FREQUENCY = 2
          /\ rec.MIN_service_len # NullShort
          /\ rec.MIN_service_len < rec.MAX_service_len
          /\ rec.SUM_normalnum = NominalSum(rec.case, Len(feed.trips))
          /\ rec.SUM_normalnum > 0

\* C19 as claimed: the call on a path that is neither a directory nor a zip
\* archive raises an exception and leaves the output location as it was: the
\* geodatabase is not created and its datasets are unchanged.
C19_MissingInputChangesNothing ==
    [][(pc = "start" /\ gtfs_kind = "missing") =>
          /\ raised' # ""
          /\ gdb_exists' = gdb_exists
          /\ gdb' = gdb
      ]_vars

\* C20 as claimed: when a run has ended, with or without keep and with or
\* without an error, every file the directory held when the run started is
\* still there and has not been written to.
C20_InputFilesPreserved ==
    pc = "done" =>
        /\ files_before \subseteq dirfiles
        /\ files_before \cap written = {}

\* C21 as claimed: while the loop processes a feed, every warning and error
\* that GTFStoSHPweeklynumber has logged is in the log file of the feed.
C21_RecordsInFeedLog ==
    (errorlog = "exists" /\ pc # "closed") => FileRecords(log) = log

\* the file of the section that line i of schema.ini belongs to ("" above
\* the first section)
SectionAt(lns, i) ==
    LET S == {j \in 1..i : lns[j].kind = "section"}
    IN  IF S = {} THEN "" ELSE lns[CHOOSE j \in S : \A k \in S : k <= j].file

\* the ColN lines of the section of file f
ColsOf(lns, f) == {i \in 1..Len(lns) : lns[i].kind = "col" /\ SectionAt(lns, i) = f}

\* the section of file f declares column n with width w
Declares(lns, f, n, w) ==
    \E i \in ColsOf(lns, f) : lns[i].n = n /\ lns[i].width = w

\* C22 as claimed: after a call of format_schema_import for a table with
\* rows, whatever number of id columns its header holds, no error was raised
\* and the section of the file in schema.ini declares every id column at its
\* position with the length of the longest value of that column as width.
C22_EveryIdColumnDeclared ==
    (call # NoCall /\ call.nrows >= 1) =>
        /\ call.err = ""
        /\ \A k \in 1..Len(call.cols) :
              Declares(schema_ini.lines, call.file, call.cols[k],
                       call.longest[call.cols[k]])

\* at most one section per file and one ColN line per column of a section
WellFormedIni(lns) ==
    /\ \A i, j \in 1..Len(lns) :
          (lns[i].kind = "section" /\ lns[j] = lns[i]) => i = j
    /\ \A f \in IniFiles :
          \A i, j \in ColsOf(lns, f) : lns[i].n = lns[j].n => i = j

\* from lines old to lines new, nothing changed but the line of column n in
\* the section of file f
OnlyColumnChanged(old, new, f, n) ==
    /\ Len(new) >= Len(old)
    /\ \A i \in 1..Len(old) :
          (old[i].kind = "section" \/ SectionAt(old, i) # f \/ old[i].n # n) =>
              new[i] = old[i]
    /\ \A i \in (Len(old) + 1)..Len(new) :
          new[i] = Section(f) \/ (SectionAt(new, i) = f /\ new[i].n = n)

\* C23 as claimed: a call of format_schema_import for one file and one id
\* column that raises no error changes only the line of that column in the
\* section of that file, and leaves schema.ini with at most one section per
\* file and one ColN line per column of a section.
C23_OnlyOwnLineChanges ==
    [][(call'.err = "" /\ Len(call'.cols) = 1) =>
          /\ OnlyColumnChanged(schema_ini.lines, schema_ini'.lines, call'.file,
                               call'.cols[1])
          /\ WellFormedIni(schema_ini'.lines)
      ]_vars

=============================================================================
